---- MODULE Spec2Model ----
(***************************************************************************)
(* Model of util/bpylist/bplistlib/_types.py: the adapters that map record *)
(* types onto the key/value view of a keyed archive.                       *)
(*                                                                         *)
(* Text (field names, archive keys) is a sequence of one-character         *)
(* strings, so that slicing and prefix tests are computed as the code      *)
(* computes them.  A value is a record [kind, v]: kind is the Python type  *)
(* name and v the payload as a sequence of naturals (the bytes of a bytes  *)
(* or bytearray, the code points of a str, the number of an int).          *)
(***************************************************************************)
EXTENDS Integers, Sequences, FiniteSets, TLC

VARIABLES
    adapter,   \* the adapter class the archive boundary is driving
    cls,       \* the DataclassArchiver subclass in play: [fields, ignore_unmapped]
    obj,       \* the application value handed to encode_archive (NoObj before)
    archive,   \* the archive boundary: [object |-> raw record mapping, calls |-> log]
    result,    \* outcome of the last decode_archive: [status, value, names, src]
    pc,        \* "start", "encoded", "raw", "done"
    op,        \* name of the last operation
    puts,      \* number of keys the external producer has written
    heap,      \* mutable objects (dict, list) by identity
    instances, \* the XCTestConfiguration instances constructed so far (their _kv)
    built,     \* outcome of the last XCTestConfiguration(kv) call
    last,      \* the instance the last configuration operation acted on (0: none)
    changes    \* number of caller-side changes made to instances so far

avars == <<adapter, cls, obj, archive, result, pc, op, puts>>
cvars == <<heap, instances, built, last, changes>>
vars == <<adapter, cls, obj, archive, result, pc, op, puts, heap, instances, built, last, changes>>

-----------------------------------------------------------------------------
(* Bounds of the model *)

\* most fields a modelled DataclassArchiver subclass declares
MaxFields == 2
\* most keys an external producer writes into a raw record
MaxPuts == 2
\* longest field name of the types the translation is exercised on
MaxNameLen == 3
\* most XCTestConfiguration instances constructed in one run
MaxInstances == 2
\* most caller-side changes (__setitem__, nested mutation) in one run
MaxChanges == 2

-----------------------------------------------------------------------------
(* Python text and values *)

Take(s, n) == IF Len(s) <= n THEN s ELSE SubSeq(s, 1, n)
Drop(s, n) == IF Len(s) <= n THEN <<>> ELSE SubSeq(s, n + 1, Len(s))

NoneValue == [kind |-> "NoneType", v |-> <<>>]
Bytes(b) == [kind |-> "bytes", v |-> b]
ByteArray(b) == [kind |-> "bytearray", v |-> b]
PyInt(n) == [kind |-> "int", v |-> <<n>>]
PyFloat(n) == [kind |-> "float", v |-> <<n>>]
PyStr(s) == [kind |-> "str", v |-> s]

\* Python's ==: a bytes and a bytearray of the same content are equal
PyEq(a, b) ==
    /\ a.v = b.v
    /\ \/ a.kind = b.kind
       \/ {a.kind, b.kind} \subseteq {"bytes", "bytearray"}

EmptyMap == <<>>
MapPut(m, k, val) == (k :> val) @@ m

-----------------------------------------------------------------------------
(* The archive boundary: encode(key, value), decode(key), the raw mapping *)

EmptyArchive == [object |-> EmptyMap, calls |-> <<>>]

ArchiveEncode(a, key, val) ==
    [object |-> MapPut(a.object, key, val),
     calls  |-> Append(a.calls, <<"encode", key>>)]

ArchiveDecodeValue(a, key) ==
    IF key \in DOMAIN a.object THEN a.object[key] ELSE NoneValue

ArchiveDecodeLog(a, key) ==
    [a EXCEPT !.calls = Append(@, <<"decode", key>>)]

-----------------------------------------------------------------------------
(* Field-name translation and the completeness verifier *)

Error == "Error"

\* encode_archive / decode_archive: 'NS' + rest becomes 'NS.' + rest
KeyBad(name) == name
archive_field_name(name) ==
    IF Take(name, 2) = <<"N", "S">>
    THEN <<"N", "S", ".">> \o Drop(name, 2)
    ELSE name

\* _verify_dataclass_has_fields: 'NS.' + rest becomes 'NS' + rest
field_with_no_dots(f) ==
    IF Take(f, 3) # <<"N", "S", ".">>
    THEN f
    ELSE <<"N", "S">> \o Drop(f, 3)

ClassKey == <<"$", "c", "l", "a", "s", "s">>

FieldNames(c) == {c.fields[i] : i \in 1..Len(c.fields)}

unmapped_fields(dataclass, plist_obj) ==
    LET skip_fields == {ClassKey}
        fields_to_verify == (DOMAIN plist_obj) \ skip_fields
        fields_with_no_dots == {field_with_no_dots(f) : f \in fields_to_verify}
    IN  fields_with_no_dots \ FieldNames(dataclass)

\* the set of names the raised Error carries; {} when nothing is raised
VerifyNeverRaises(dataclass, plist_obj) == {}
VerifyIgnoresFlag(dataclass, plist_obj) == unmapped_fields(dataclass, plist_obj)
_verify_dataclass_has_fields(dataclass, plist_obj) ==
    IF dataclass.ignore_unmapped
    THEN {}
    ELSE unmapped_fields(dataclass, plist_obj)

-----------------------------------------------------------------------------
(* DataclassArchiver *)

NoObj == [kind |-> "none"]
NoResult == [status |-> "none", value |-> NoObj, names |-> {}, src |-> "none"]

RECURSIVE EncodeFields(_, _, _, _)
EncodeFields(fields, i, values, a) ==
    IF i > Len(fields) THEN a
    ELSE EncodeFields(fields, i + 1, values,
                      ArchiveEncode(a, archive_field_name(fields[i]), values[fields[i]]))

DataclassArchiver_encode_archive(o, a) ==
    EncodeFields(o.cls.fields, 1, o.fields, a)

RECURSIVE DecodeLog(_, _, _)
DecodeLog(fields, i, a) ==
    IF i > Len(fields) THEN a
    ELSE DecodeLog(fields, i + 1, ArchiveDecodeLog(a, archive_field_name(fields[i])))

DecodeKeepsByteArray(c, a, name) == ArchiveDecodeValue(a, archive_field_name(name))
DecodeFieldValue(c, a, name) ==
    LET value == ArchiveDecodeValue(a, archive_field_name(name))
    IN  IF value.kind = "bytearray" THEN Bytes(value.v) ELSE value

\* <<what decode_archive returns or raises, the archive after its calls>>
DataclassArchiver_decode_archive(c, a) ==
    LET unmapped == _verify_dataclass_has_fields(c, a.object)
    IN  IF unmapped # {}
        THEN <<[status |-> Error, value |-> NoObj, names |-> unmapped], a>>
        ELSE <<[status |-> "ok",
                value  |-> [cls |-> c,
                            fields |-> [n \in FieldNames(c) |-> DecodeFieldValue(c, a, n)]],
                names  |-> {}],
               DecodeLog(c.fields, 1, a)>>

-----------------------------------------------------------------------------
(* timestamp *)

unix2apple_epoch_delta == 978307200

TimeKey == <<"N", "S", ".", "t", "i", "m", "e">>

IsNumber(val) == val.kind \in {"int", "float", "timestamp"}

TimestampEncodeNoShift(o, a) == ArchiveEncode(a, TimeKey, PyFloat(o.v[1]))
timestamp_encode_archive(o, a) ==
    LET offset == o.v[1] - unix2apple_epoch_delta
    IN  ArchiveEncode(a, TimeKey, PyFloat(offset))

timestamp_decode_archive(a) ==
    LET offset == ArchiveDecodeValue(a, TimeKey)
    IN  <<IF IsNumber(offset)
          THEN [status |-> "ok",
                value  |-> [kind |-> "timestamp",
                            v |-> <<unix2apple_epoch_delta + offset.v[1]>>],
                names  |-> {}]
          ELSE [status |-> "TypeError", value |-> NoObj, names |-> {}],
          ArchiveDecodeLog(a, TimeKey)>>

-----------------------------------------------------------------------------
(* NSURL *)

BaseKey == <<"N", "S", ".", "b", "a", "s", "e">>
RelativeKey == <<"N", "S", ".", "r", "e", "l", "a", "t", "i", "v", "e">>
NSURLName == <<78, 83, 85, 82, 76>>

NSURL_init(base, relative) == [kind |-> "NSURL", _base |-> base, _relative |-> relative]

NSURL_encode_archive(o, a) ==
    ArchiveEncode(ArchiveEncode(a, BaseKey, o._base), RelativeKey, o._relative)

\* def decode_archive(obj, archive): the body, given both parameters
NSURL_decode_archive(o, a) ==
    LET base == ArchiveDecodeValue(a, BaseKey)
        relative == ArchiveDecodeValue(a, RelativeKey)
    IN  <<[status |-> "ok",
           value  |-> [kind |-> "dict",
                       items |-> (ClassKey :> PyStr(NSURLName))
                                 @@ (<<"b", "a", "s", "e">> :> base)
                                 @@ (<<"r", "e", "l", "a", "t", "i", "v", "e">> :> relative)],
           names  |-> {}],
          ArchiveDecodeLog(ArchiveDecodeLog(a, BaseKey), RelativeKey)>>

-----------------------------------------------------------------------------
(* XCActivityRecord *)

XCActivityRecord_keys ==
    << <<"a", "c", "t", "i", "v", "i", "t", "y", "T", "y", "p", "e">>,
       <<"a", "t", "t", "a", "c", "h", "m", "e", "n", "t", "s">>,
       <<"f", "i", "n", "i", "s", "h">>,
       <<"s", "t", "a", "r", "t">>,
       <<"t", "i", "t", "l", "e">>,
       <<"u", "u", "i", "d">> >>

Range(s) == {s[i] : i \in 1..Len(s)}

ActivityCopiesRecord(a) ==
    <<[status |-> "ok", value |-> [kind |-> "XCActivityRecord", items |-> a.object],
       names |-> {}],
      DecodeLog(XCActivityRecord_keys, 1, a)>>
XCActivityRecord_decode_archive(a) ==
    <<[status |-> "ok",
       value  |-> [kind  |-> "XCActivityRecord",
                   items |-> [key \in Range(XCActivityRecord_keys)
                                 |-> ArchiveDecodeValue(a, key)]],
       names  |-> {}],
      [a EXCEPT !.calls = @ \o [i \in 1..Len(XCActivityRecord_keys)
                                   |-> <<"decode", XCActivityRecord_keys[i]>>]]>>

-----------------------------------------------------------------------------
(* NSUUID *)

UuidLen == 16

UuidBytesKey == <<"N", "S", ".", "u", "u", "i", "d", "b", "y", "t", "e", "s">>

\* bytes(x): <<status, payload>>
PyBytes(val) ==
    IF val.kind \in {"bytes", "bytearray"} THEN <<"ok", val.v>>
    ELSE IF val.kind = "int" THEN <<"ok", [i \in 1..val.v[1] |-> 0]>>
    ELSE <<"TypeError", <<>>>>

\* uuid.UUID(bytes=b)
UUID_init(kind, b) ==
    IF Len(b) # UuidLen
    THEN [status |-> "ValueError", value |-> NoObj, names |-> {}]
    ELSE [status |-> "ok", value |-> [kind |-> kind, v |-> b], names |-> {}]

NSUUIDEncodeViaEncode(o, a) == ArchiveEncode(a, UuidBytesKey, Bytes(o.v))
NSUUID_encode_archive(o, a) ==
    [a EXCEPT !.object = MapPut(@, UuidBytesKey, Bytes(o.v))]

NSUUID_decode_archive(a) ==
    LET uuidbytes == ArchiveDecodeValue(a, UuidBytesKey)
        b == PyBytes(uuidbytes)
    IN  <<IF b[1] # "ok"
          THEN [status |-> b[1], value |-> NoObj, names |-> {}]
          ELSE UUID_init("NSUUID", b[2]),
          ArchiveDecodeLog(a, UuidBytesKey)>>

-----------------------------------------------------------------------------
(* Dispatch by the archive boundary: klass.decode_archive(archive) *)

Adapters == {"DataclassArchiver", "timestamp", "NSURL", "XCActivityRecord", "NSUUID"}

\* positional parameters of each decode_archive once the class is bound
decode_archive_params(k) ==
    IF k = "NSURL" THEN <<"obj", "archive">> ELSE <<"archive">>

decode_entry(k, c, a) ==
    IF Len(decode_archive_params(k)) # 1
    THEN <<[status |-> "TypeError", value |-> NoObj, names |-> {}], a>>
    ELSE IF k = "DataclassArchiver" THEN DataclassArchiver_decode_archive(c, a)
    ELSE IF k = "timestamp" THEN timestamp_decode_archive(a)
    ELSE IF k = "XCActivityRecord" THEN XCActivityRecord_decode_archive(a)
    ELSE IF k = "NSUUID" THEN NSUUID_decode_archive(a)
    ELSE NSURL_decode_archive(NoObj, a)

-----------------------------------------------------------------------------
(* Inputs: the types, values and raw records the operations are driven with *)

NSMutableData == [fields |-> << <<"N", "S", "d", "a", "t", "a">> >>, ignore_unmapped |-> FALSE]

FieldPool == { <<"a">>, <<"N", "S", "a">>, <<"N", "S", "d", "a", "t", "a">> }

Injective(s) == \A i, j \in 1..Len(s) : i # j => s[i] # s[j]

FieldLists(pool, n) == {s \in UNION {[1..m -> pool] : m \in 0..n} : Injective(s)}

DataclassTypes ==
    {[fields |-> f, ignore_unmapped |-> g] : f \in FieldLists(FieldPool, MaxFields), g \in BOOLEAN}

\* Python identifiers over a small alphabet: no dot can occur in a field name
NameChars == {"N", "S", "a"}
Names == UNION {[1..m -> NameChars] : m \in 1..MaxNameLen}
NameTypes ==
    {[fields |-> f, ignore_unmapped |-> FALSE] :
        f \in {<<n>> : n \in Names} \cup {p \in Names \X Names : p[1] # p[2]}}

FieldValues == {NoneValue, Bytes(<<1, 2>>), ByteArray(<<1, 2>>)}

HttpA == <<104, 116, 116, 112, 58, 47, 47, 97>>
UUIDs == {[i \in 1..UuidLen |-> IF i = 1 THEN x ELSE IF i = UuidLen THEN y ELSE 0] :
             x \in {0, 255}, y \in {0, 7}}
Times == {0, 1, 978307200, 1700000000, -86400}

Objects(k, c) ==
    IF k = "DataclassArchiver"
    THEN {[cls |-> c, fields |-> f] : f \in [FieldNames(c) -> FieldValues]}
    ELSE IF k = "timestamp" THEN {[kind |-> "timestamp", v |-> <<t>>] : t \in Times}
    ELSE IF k = "NSURL"
    THEN {NSURL_init(b, r) : b \in {PyStr(HttpA), NoneValue},
                             r \in {PyStr(<<98>>), PyStr(<<>>)}}
    ELSE IF k = "NSUUID" THEN {[kind |-> "NSUUID", v |-> u] : u \in UUIDs}
    ELSE {}

NameObjects(c) == {[cls |-> c, fields |-> [n \in FieldNames(c) |-> Bytes(<<1, 2>>)]]}

ExtraKeys == { <<"e", "x", "t", "r", "a">>, <<"N", "S", ".", "x">> }

\* the keys an adapter reads
ExpectedKeys(k, c) ==
    IF k = "DataclassArchiver" THEN {archive_field_name(n) : n \in FieldNames(c)}
    ELSE IF k = "timestamp" THEN {TimeKey}
    ELSE IF k = "NSURL" THEN {BaseKey, RelativeKey}
    ELSE IF k = "NSUUID" THEN {UuidBytesKey}
    ELSE Range(XCActivityRecord_keys)

\* what an external producer may write: <<key, value>>
RawPool(k, c) ==
    IF k = "DataclassArchiver"
    THEN { <<ClassKey, Bytes(<<1, 2>>)>>,
           << <<"a">>, ByteArray(<<3>>)>>,
           << <<"b">>, Bytes(<<1, 2>>)>>,
           << <<"N", "S", "a">>, Bytes(<<1, 2>>)>>,
           << <<"N", "S", ".", "a">>, Bytes(<<1, 2>>)>>,
           << <<"N", "S", ".", "a">>, ByteArray(<<3>>)>>,
           << <<"N", "S", ".", "b">>, Bytes(<<1, 2>>)>>,
           << <<"N", "S", ".", "d", "a", "t", "a">>, ByteArray(<<3>>)>> }
    ELSE IF k = "timestamp"
    THEN ({TimeKey} \X {PyFloat(0), PyInt(100), NoneValue}) \cup (ExtraKeys \X {PyInt(1)})
    ELSE IF k = "NSURL"
    THEN ({BaseKey, RelativeKey} \X {PyStr(HttpA), PyStr(<<98>>)}) \cup (ExtraKeys \X {PyInt(1)})
    ELSE IF k = "NSUUID"
    THEN ({UuidBytesKey} \X ({Bytes(u) : u \in UUIDs} \cup {ByteArray(u) : u \in UUIDs}
                             \cup {Bytes(<<1, 2>>), NoneValue, PyInt(UuidLen)}))
         \cup (ExtraKeys \X {PyInt(1)})
    ELSE (Range(XCActivityRecord_keys) \cup ExtraKeys) \X {PyInt(1)}

\* a raw record delivered whole: any subset of the keys the adapter reads
RawRecords(k, c) ==
    {[key \in K |-> val] : K \in SUBSET ExpectedKeys(k, c), val \in {PyInt(7), ByteArray(<<9>>)}}

-----------------------------------------------------------------------------
(* Operations on the archive adapters *)

encode_entry(k, o, a) ==
    IF k = "DataclassArchiver" THEN DataclassArchiver_encode_archive(o, a)
    ELSE IF k = "timestamp" THEN timestamp_encode_archive(o, a)
    ELSE IF k = "NSURL" THEN NSURL_encode_archive(o, a)
    ELSE NSUUID_encode_archive(o, a)

\* klass.encode_archive(obj, archive), once per run
EncodeStep(o) ==
    /\ pc \in {"start", "raw"}
    /\ obj = NoObj
    /\ obj' = o
    /\ archive' = encode_entry(adapter, o, archive)
    /\ pc' = IF pc = "start" THEN "encoded" ELSE "raw"
    /\ op' = "encode"
    /\ UNCHANGED <<adapter, cls, result, puts>>

Encode == \E o \in Objects(adapter, cls) : EncodeStep(o)

EncodeName == \E o \in NameObjects(cls) : EncodeStep(o)

\* an external producer writes one key of the raw record
PutRaw ==
    \E kv \in RawPool(adapter, cls) :
        /\ pc \in {"start", "encoded", "raw"}
        /\ puts < MaxPuts
        /\ kv[1] \notin DOMAIN archive.object
        /\ archive' = [archive EXCEPT !.object = MapPut(@, kv[1], kv[2])]
        /\ puts' = puts + 1
        /\ pc' = "raw"
        /\ op' = "put"
        /\ UNCHANGED <<adapter, cls, obj, result>>

\* an external producer delivers a whole raw record
LoadRaw ==
    \E m \in RawRecords(adapter, cls) :
        /\ pc = "start"
        /\ obj = NoObj
        /\ m # EmptyMap
        /\ archive' = [archive EXCEPT !.object = m]
        /\ pc' = "raw"
        /\ op' = "load"
        /\ UNCHANGED <<adapter, cls, obj, result, puts>>

\* klass.decode_archive(archive)
Decode ==
    /\ pc \in {"start", "encoded", "raw"}
    /\ LET r == decode_entry(adapter, cls, archive)
       IN  /\ result' = [status |-> r[1].status, value |-> r[1].value,
                         names |-> r[1].names, src |-> pc]
           /\ archive' = r[2]
    /\ pc' = "done"
    /\ op' = "decode"
    /\ UNCHANGED <<adapter, cls, obj, puts>>

-----------------------------------------------------------------------------
(* XCTestConfiguration: the class-level default table and the object heap *)

\* The configuration record never inspects or rewrites its keys, so a key of it
\* is an atomic string.

\* A mutable object (dict or list) lives in the heap and is named by its
\* position; a value of kind "ref" points at one.
Ref(id) == [kind |-> "ref", v |-> <<id>>]
PyBool(b) == [kind |-> "bool", v |-> <<IF b THEN 1 ELSE 0>>]

DictObj(items) == [kind |-> "dict", items |-> items, elems |-> <<>>]
ListObj(elems) == [kind |-> "list", items |-> EmptyMap, elems |-> elems]

AutomationFrameworkPath ==
    <<47, 68, 101, 118, 101, 108, 111, 112, 101, 114, 47, 76, 105, 98, 114, 97, 114, 121,
      47, 80, 114, 105, 118, 97, 116, 101, 70, 114, 97, 109, 101, 119, 111, 114, 107,
      115, 47, 88, 67, 84, 65, 117, 116, 111, 109, 97, 116, 105, 111, 110, 83, 117, 112,
      112, 111, 114, 116, 46, 102, 114, 97, 109, 101, 119, 111, 114, 107>>
WebDriverAgentRunner ==
    <<87, 101, 98, 68, 114, 105, 118, 101, 114, 65, 103, 101, 110, 116, 82, 117, 110,
      110, 101, 114>>

TestBundleURLKey == "testBundleURL"
SessionIdentifierKey == "sessionIdentifier"
FormatVersionKey == "formatVersion"
TargetArgumentsKey == "targetApplicationArguments"
XCSuiteRecordsKey == "XCSuiteRecordsKey"

\* objects 1..4 are the mutable values of the class-level table; object 5 is a
\* list the caller owns and may pass in kv
InitialHeap ==
    << DictObj(XCSuiteRecordsKey :> Ref(2)),
       DictObj(EmptyMap),
       ListObj(<<>>),
       DictObj(EmptyMap),
       ListObj(<<>>) >>

CallerList == Ref(5)

\* _default, in source order: <<key, value>>
XCTestConfiguration_default ==
    << <<"aggregateStatisticsBeforeCrash", Ref(1)>>,
       <<"automationFrameworkPath", PyStr(AutomationFrameworkPath)>>,
       <<"baselineFileRelativePath", NoneValue>>,
       <<"baselineFileURL", NoneValue>>,
       <<"defaultTestExecutionTimeAllowance", NoneValue>>,
       <<"disablePerformanceMetrics", PyBool(FALSE)>>,
       <<"emitOSLogs", PyBool(FALSE)>>,
       <<"formatVersion", PyInt(2)>>,
       <<"gatherLocalizableStringsData", PyBool(FALSE)>>,
       <<"initializeForUITesting", PyBool(TRUE)>>,
       <<"maximumTestExecutionTimeAllowance", NoneValue>>,
       <<"productModuleName", PyStr(WebDriverAgentRunner)>>,
       <<"randomExecutionOrderingSeed", NoneValue>>,
       <<"reportActivities", PyBool(TRUE)>>,
       <<"reportResultsToIDE", PyBool(TRUE)>>,
       <<"systemAttachmentLifetime", PyInt(2)>>,
       <<"targetApplicationArguments", Ref(3)>>,
       <<"targetApplicationBundleID", NoneValue>>,
       <<"targetApplicationEnvironment", NoneValue>>,
       <<"targetApplicationPath", NoneValue>>,
       <<"testApplicationDependencies", Ref(4)>>,
       <<"testApplicationUserOverrides", NoneValue>>,
       <<"testBundleRelativePath", NoneValue>>,
       <<"testExecutionOrdering", PyInt(0)>>,
       <<"testTimeoutsEnabled", PyBool(FALSE)>>,
       <<"testsDrivenByIDE", PyBool(FALSE)>>,
       <<"testsMustRunOnMainThread", PyBool(TRUE)>>,
       <<"testsToRun", NoneValue>>,
       <<"testsToSkip", NoneValue>>,
       <<"treatMissingBaselinesAsFailures", PyBool(FALSE)>>,
       <<"userAttachmentLifetime", PyInt(1)>> >>

PairKeys(pairs) == {pairs[i][1] : i \in 1..Len(pairs)}
PairGet(pairs, k) == pairs[CHOOSE i \in 1..Len(pairs) : pairs[i][1] = k][2]

\* the value a reference stands for, with all it reaches
RECURSIVE Deep(_, _)
Deep(h, val) ==
    IF val.kind # "ref" THEN val
    ELSE LET o == h[val.v[1]]
         IN  [kind  |-> o.kind,
              items |-> [k \in DOMAIN o.items |-> Deep(h, o.items[k])],
              elems |-> [i \in 1..Len(o.elems) |-> Deep(h, o.elems[i])]]

\* the objects reachable from a set of values
Refs(vals) == {val.v[1] : val \in {x \in vals : x.kind = "ref"}}
Children(h, id) ==
    Refs({h[id].items[k] : k \in DOMAIN h[id].items}
         \cup {h[id].elems[i] : i \in 1..Len(h[id].elems)})
RECURSIVE ReachFrom(_, _, _)
ReachFrom(h, todo, seen) ==
    IF todo \subseteq seen THEN seen
    ELSE ReachFrom(h, UNION {Children(h, id) : id \in todo}, seen \cup todo)

\* copy.deepcopy of a sequence of <<key, value>> pairs: every object the
\* values reach is copied once, to a fresh identity, and every reference is
\* redirected to the copy.  <<heap after the copy, the copied pairs>>
deepcopy(h, pairs) ==
    LET old == ReachFrom(h, Refs({pairs[i][2] : i \in 1..Len(pairs)}), {})
        fresh(id) == Len(h) + Cardinality({x \in old : x <= id})
        source(n) == CHOOSE id \in old : fresh(id) = n
        copied(val) == IF val.kind = "ref" THEN Ref(fresh(val.v[1])) ELSE val
        copy(o) == [kind  |-> o.kind,
                    items |-> [k \in DOMAIN o.items |-> copied(o.items[k])] @@ <<>>,
                    elems |-> <<>> \o [i \in 1..Len(o.elems) |-> copied(o.elems[i])]]
    IN  <<h \o [n \in 1..Cardinality(old) |-> copy(h[source(Len(h) + n)])],
          <<>> \o [i \in 1..Len(pairs) |-> <<pairs[i][1], copied(pairs[i][2])>>]>>

\* the same call when it copies the table alone and shares what it refers to
ShallowCopy(h, pairs) == <<h, pairs>>

\* dict.__setitem__ on an insertion-ordered dict, kept as <<key, value>> pairs
DictSet(d, k, val) ==
    IF k \in PairKeys(d)
    THEN <<>> \o [i \in 1..Len(d) |-> IF d[i][1] = k THEN <<k, val>> ELSE d[i]]
    ELSE Append(d, <<k, val>>)

\* dict.update(kv)
RECURSIVE DictUpdate(_, _, _)
DictUpdate(d, pairs, i) ==
    IF i > Len(pairs) THEN d
    ELSE DictUpdate(DictSet(d, pairs[i][1], pairs[i][2]), pairs, i + 1)

IsInstanceNSURL(val) == val.kind = "NSURL"
IsInstanceUUID(val) == val.kind \in {"UUID", "NSUUID"}

InitAsserts(kv) ==
    /\ TestBundleURLKey \in PairKeys(kv)
    /\ IsInstanceNSURL(PairGet(kv, TestBundleURLKey))
    /\ SessionIdentifierKey \in PairKeys(kv)
    /\ IsInstanceUUID(PairGet(kv, SessionIdentifierKey))

\* XCTestConfiguration(kv): <<status, heap, the new instance's _kv>>
InitWithoutSessionCheck(h, kv) ==
    IF ~(TestBundleURLKey \in PairKeys(kv) /\ IsInstanceNSURL(PairGet(kv, TestBundleURLKey)))
    THEN <<"AssertionError", h, <<>>>>
    ELSE LET c == deepcopy(h, XCTestConfiguration_default)
         IN  <<"ok", c[1], DictUpdate(c[2], kv, 1)>>
InitSharesDefaults(h, kv) ==
    IF ~InitAsserts(kv)
    THEN <<"AssertionError", h, <<>>>>
    ELSE LET c == ShallowCopy(h, XCTestConfiguration_default)
         IN  <<"ok", c[1], DictUpdate(c[2], kv, 1)>>
XCTestConfiguration_init(h, kv) ==
    IF ~InitAsserts(kv)
    THEN <<"AssertionError", h, <<>>>>
    ELSE LET c == deepcopy(h, XCTestConfiguration_default)
         IN  <<"ok", c[1], DictUpdate(c[2], kv, 1)>>

\* encode_archive: every key of _kv under its own name
RECURSIVE EncodeKv(_, _, _)
EncodeKv(d, i, a) ==
    IF i > Len(d) THEN a
    ELSE EncodeKv(d, i + 1, ArchiveEncode(a, d[i][1], d[i][2]))

XCTestConfiguration_encode_archive(d, a) == EncodeKv(d, 1, a)

\* __setitem__: <<status, _kv after>>
XCTestConfiguration_setitem(d, key, val) ==
    IF ~key.isstr THEN <<"AssertionError", d>>
    ELSE <<"ok", DictSet(d, key.s, val)>>

-----------------------------------------------------------------------------
(* Operations on XCTestConfiguration *)

NSURLValue == [kind |-> "NSURL", v |-> <<>>]
UUIDValue(kind) == [kind |-> kind, v |-> [i \in 1..UuidLen |-> 0]]
NSxKey == "NSx"

Url(val) == << <<TestBundleURLKey, val>> >>
Sid(val) == << <<SessionIdentifierKey, val>> >>

\* kv arguments that pass both assertions
ValidKVs ==
    { Url(NSURLValue) \o Sid(UUIDValue("UUID")),
      Sid(UUIDValue("NSUUID")) \o << <<FormatVersionKey, PyInt(3)>>, <<NSxKey, PyInt(1)>> >>
          \o Url(NSURLValue) \o << <<TargetArgumentsKey, CallerList>> >> }

\* kv arguments that lack a mandatory key or hold a value of the wrong type
InvalidKVs ==
    { <<>>,
      Sid(UUIDValue("UUID")) \o <<<<FormatVersionKey, PyInt(3)>>>>,
      Url(NSURLValue),
      Url(PyStr(HttpA)) \o Sid(UUIDValue("UUID")),
      Url(NSURLValue) \o Sid(PyStr(<<>>)) }

KVs == ValidKVs \cup InvalidKVs

StrKey(k) == [isstr |-> TRUE, s |-> k]
NonStrKey == [isstr |-> FALSE, s |-> ""]
\* the <<key, value>> arguments __setitem__ is called with
SetArgs ==
    { <<StrKey(NSxKey), PyInt(9)>>, <<StrKey(TargetArgumentsKey), CallerList>>,
      <<NonStrKey, PyInt(9)>> }

NoBuilt == [status |-> "none", kv |-> <<>>]

\* the objects reachable from an instance's _kv
Reach(h, d) == ReachFrom(h, Refs({d[i][2] : i \in 1..Len(d)}), {})

\* the caller changes a mutable object in place: list.append(1) or dict['x'] = 1
Mutated(o) ==
    IF o.kind = "list" THEN [o EXCEPT !.elems = Append(@, PyInt(1))]
    ELSE [o EXCEPT !.items = MapPut(@, "x", PyInt(1))]

\* XCTestConfiguration(kv); an AssertionError is not caught and ends the run
Construct ==
    \E kv \in KVs :
        /\ pc = "start"
        /\ Len(instances) < MaxInstances
        /\ LET r == XCTestConfiguration_init(heap, kv)
           IN  /\ built' = [status |-> r[1], kv |-> kv]
               /\ heap' = r[2]
               /\ IF r[1] = "ok"
                  THEN /\ instances' = Append(instances,
                              [_kv |-> r[3],
                               defaults |-> PairKeys(XCTestConfiguration_default) \ PairKeys(kv)])
                       /\ last' = Len(instances) + 1
                       /\ pc' = pc
                  ELSE /\ instances' = instances
                       /\ last' = 0
                       /\ pc' = "done"
        /\ op' = "construct"
        /\ UNCHANGED <<adapter, cls, obj, archive, result, puts, changes>>

\* instance[key] = val; an AssertionError is not caught and ends the run
SetItem ==
    \E i \in 1..Len(instances), kv \in SetArgs :
        /\ pc = "start"
        /\ changes < MaxChanges
        /\ LET r == XCTestConfiguration_setitem(instances[i]._kv, kv[1], kv[2])
           IN  /\ instances' = [instances EXCEPT ![i] =
                      [_kv |-> r[2],
                       defaults |-> IF r[1] = "ok" THEN @.defaults \ {kv[1].s} ELSE @.defaults]]
               /\ op' = IF r[1] = "ok" THEN "setitem" ELSE "setitem_failed"
               /\ pc' = IF r[1] = "ok" THEN pc ELSE "done"
        /\ last' = i
        /\ changes' = changes + 1
        /\ built' = NoBuilt
        /\ UNCHANGED <<adapter, cls, obj, archive, result, puts, heap>>

MutateNested ==
    \E i \in 1..Len(instances) :
        \E id \in Reach(heap, instances[i]._kv) :
            /\ pc = "start"
            /\ changes < MaxChanges
            /\ heap' = [heap EXCEPT ![id] = Mutated(@)]
            /\ last' = i
            /\ changes' = changes + 1
            /\ op' = "mutate"
            /\ built' = NoBuilt
            /\ UNCHANGED <<adapter, cls, obj, archive, result, pc, puts, instances>>

EncodeConfig ==
    \E i \in 1..Len(instances) :
        /\ pc = "start"
        /\ archive' = XCTestConfiguration_encode_archive(instances[i]._kv, EmptyArchive)
        /\ pc' = "done"
        /\ last' = i
        /\ op' = "encode_config"
        /\ built' = NoBuilt
        /\ UNCHANGED <<adapter, cls, obj, result, puts, heap, instances, changes>>

-----------------------------------------------------------------------------
(* Properties of the archive adapters *)

Decoded(k) == pc = "done" /\ adapter = k

\* the raw record decode_archive was given (decode only appends to the call log)
Raw == archive.object

\* the translation rules, spelled out on characters
DotKey(n) ==
    IF Len(n) >= 2 /\ n[1] = "N" /\ n[2] = "S"
    THEN <<"N", "S", ".">> \o Drop(n, 2)
    ELSE n

StripDot(k) ==
    IF Len(k) >= 3 /\ k[1] = "N" /\ k[2] = "S" /\ k[3] = "."
    THEN <<"N", "S">> \o Drop(k, 3)
    ELSE k

DeclaredKeys == {DotKey(n) : n \in FieldNames(cls)}

DecodeCalls == {i \in 1..Len(archive.calls) : archive.calls[i][1] = "decode"}
EncodeCalls == {i \in 1..Len(archive.calls) : archive.calls[i][1] = "encode"}

\* C1 as stated: with the ignore-unmapped flag false, every raw key other than
\* '$class' that is not the archive key of a declared field makes decode_archive
\* fail with an 'Unmapped fields' Error naming that key, and nothing is returned.
C1_Original ==
    (Decoded("DataclassArchiver") /\ ~cls.ignore_unmapped) =>
        \A k \in (DOMAIN Raw) \ {ClassKey} :
            k \notin DeclaredKeys =>
                /\ result.status = Error
                /\ k \in result.names
                /\ result.value = NoObj

\* C1 amended: with the ignore-unmapped flag false, every raw key other than
\* '$class' whose dot-stripped form ('NS.x' read as 'NSx') is not a declared
\* field name makes decode_archive fail with an 'Unmapped fields' Error naming
\* that dot-stripped form; no record is built and no single-key decode is made.
C1_UnmappedFieldsFatal ==
    (Decoded("DataclassArchiver") /\ ~cls.ignore_unmapped) =>
        \A k \in (DOMAIN Raw) \ {ClassKey} :
            StripDot(k) \notin FieldNames(cls) =>
                /\ result.status = Error
                /\ StripDot(k) \in result.names
                /\ result.value = NoObj
                /\ DecodeCalls = {}

C1_Witness ==
    /\ Decoded("DataclassArchiver")
    /\ ~cls.ignore_unmapped
    /\ Len(cls.fields) > 0
    /\ <<"N", "S", ".", "b">> \in DOMAIN Raw
    /\ result.status = Error
    /\ <<"N", "S", "b">> \in result.names

\* what the generic decode stores for one declared field of a raw record
ExpectedField(n) ==
    IF DotKey(n) \notin DOMAIN Raw THEN NoneValue
    ELSE IF Raw[DotKey(n)].kind = "bytearray" THEN Bytes(Raw[DotKey(n)].v)
    ELSE Raw[DotKey(n)]

\* C2: with ignore_unmapped=True, decode_archive of a raw record holding any
\* extra undeclared keys succeeds, raises no unmapped-field error, and returns
\* the record of the values decoded for the declared fields alone.
C2_IgnoreUnmapped ==
    (Decoded("DataclassArchiver") /\ cls.ignore_unmapped) =>
        /\ result.status = "ok"
        /\ result.names = {}
        /\ result.value.cls = cls
        /\ DOMAIN result.value.fields = FieldNames(cls)
        /\ \A n \in FieldNames(cls) : result.value.fields[n] = ExpectedField(n)

C2_Witness ==
    /\ Decoded("DataclassArchiver")
    /\ cls.ignore_unmapped
    /\ Len(cls.fields) > 0
    /\ \E k \in (DOMAIN Raw) \ {ClassKey} : StripDot(k) \notin FieldNames(cls)
    /\ \E n \in FieldNames(cls) : DotKey(n) \in DOMAIN Raw
    /\ result.status = "ok"

\* C3: encode_archive into an empty archive followed by decode_archive of the
\* mapping it produced returns, without error, a record equal field by field to
\* the original, a bytearray field coming back as the equal bytes.
C3_RoundTrip ==
    (Decoded("DataclassArchiver") /\ result.src = "encoded") =>
        /\ result.status = "ok"
        /\ result.value.cls = obj.cls
        /\ DOMAIN result.value.fields = DOMAIN obj.fields
        /\ \A n \in DOMAIN obj.fields :
              /\ PyEq(result.value.fields[n], obj.fields[n])
              /\ result.value.fields[n].kind =
                    (IF obj.fields[n].kind = "bytearray" THEN "bytes"
                     ELSE obj.fields[n].kind)

C3_Witness ==
    /\ Decoded("DataclassArchiver")
    /\ result.src = "encoded"
    /\ Len(cls.fields) = 2
    /\ \E n \in DOMAIN obj.fields : obj.fields[n].kind = "bytearray"
    /\ \E n \in DOMAIN obj.fields : obj.fields[n].kind = "bytes"
    /\ result.status = "ok"

\* C4: encode_archive and decode_archive both use the key 'NS.' + name[2:] for
\* a field name beginning with 'NS' and the name itself otherwise; the
\* verifier's reverse rule maps every produced key back to its field name; and
\* distinct field names of a type get distinct keys.
C4_FieldNameTranslation ==
    (adapter = "DataclassArchiver"
        /\ (pc = "encoded" \/ (pc = "done" /\ result.src = "encoded"))) =>
        LET n == Len(cls.fields) IN
        /\ \A i \in 1..n : archive.calls[i] = <<"encode", DotKey(cls.fields[i])>>
        /\ DOMAIN Raw = DeclaredKeys
        /\ Cardinality(DOMAIN Raw) = n
        /\ \A f \in FieldNames(cls) : field_with_no_dots(DotKey(f)) = f
        /\ pc = "done" =>
              /\ result.status = "ok"
              /\ Len(archive.calls) = 2 * n
              /\ \A i \in 1..n : archive.calls[n + i] = <<"decode", DotKey(cls.fields[i])>>

C4_Witness ==
    /\ adapter = "DataclassArchiver"
    /\ pc = "done"
    /\ cls.fields = << <<"N", "S", "a">>, <<"N", "S">> >>
    /\ DOMAIN Raw = { <<"N", "S", ".", "a">>, <<"N", "S", ".">> }
    /\ result.status = "ok"

\* C5: timestamp.encode_archive of t writes exactly t - 978307200 under the one
\* key 'NS.time'; timestamp.decode_archive returns the value under 'NS.time'
\* plus 978307200; so decoding what was encoded gives t back; encoding 0 writes
\* -978307200 and decoding 0 gives 978307200.
C5_TimestampShift ==
    adapter = "timestamp" =>
        /\ pc = "encoded" =>
              /\ Raw = (TimeKey :> PyFloat(obj.v[1] - 978307200))
              /\ archive.calls = << <<"encode", TimeKey>> >>
              /\ obj.v[1] = 0 => Raw[TimeKey].v[1] = -978307200
        /\ (pc = "done" /\ TimeKey \in DOMAIN Raw /\ IsNumber(Raw[TimeKey])) =>
              /\ result.status = "ok"
              /\ result.value.v[1] = Raw[TimeKey].v[1] + 978307200
              /\ Raw[TimeKey].v[1] = 0 => result.value.v[1] = 978307200
        /\ (pc = "done" /\ result.src = "encoded") =>
              /\ result.status = "ok"
              /\ result.value = obj

C5_Witness ==
    /\ Decoded("timestamp")
    /\ result.src = "encoded"
    /\ obj.v[1] = 0
    /\ Raw[TimeKey].v[1] = -978307200
    /\ result.value.v[1] = 0

\* C6 as stated: NSURL.encode_archive writes base under 'NS.base' and relative
\* under 'NS.relative' and nothing else, and decoding that record through the
\* registered decode entry point, called with the archive alone, yields the
\* mapping {'$class': 'NSURL', 'base': base, 'relative': relative}.
C6_Original ==
    adapter = "NSURL" =>
        /\ pc = "encoded" =>
              Raw = (BaseKey :> obj._base) @@ (RelativeKey :> obj._relative)
        /\ (pc = "done" /\ result.src = "encoded") =>
              /\ result.status = "ok"
              /\ result.value.kind = "dict"
              /\ result.value.items =
                    (ClassKey :> PyStr(NSURLName))
                    @@ (<<"b", "a", "s", "e">> :> obj._base)
                    @@ (<<"r", "e", "l", "a", "t", "i", "v", "e">> :> obj._relative)

C7_EncodeStep == adapter = "NSUUID" /\ obj = NoObj /\ obj' # NoObj

\* C7: NSUUID.encode_archive stores exactly the identifier's 16 bytes under
\* 'NS.uuidbytes' directly in the raw mapping, makes no call to the archive's
\* single-key encode and changes no other key; NSUUID.decode_archive of those
\* bytes, given as bytes or as bytearray, returns an identifier equal to the
\* original.
C7_RawByteIdentifier ==
    /\ [][C7_EncodeStep =>
            /\ archive'.calls = archive.calls
            /\ DOMAIN archive'.object = (DOMAIN archive.object) \cup {UuidBytesKey}
            /\ archive'.object[UuidBytesKey] = Bytes(obj'.v)
            /\ Len(archive'.object[UuidBytesKey].v) = 16
            /\ \A k \in (DOMAIN archive.object) \ {UuidBytesKey} :
                  archive'.object[k] = archive.object[k]]_vars
    /\ [](Decoded("NSUUID") =>
            /\ result.src = "encoded" => (result.status = "ok" /\ result.value = obj)
            /\ (/\ UuidBytesKey \in DOMAIN Raw
                /\ Raw[UuidBytesKey].kind \in {"bytes", "bytearray"}
                /\ Len(Raw[UuidBytesKey].v) = 16) =>
                  /\ result.status = "ok"
                  /\ result.value = [kind |-> "NSUUID", v |-> Raw[UuidBytesKey].v]
                  /\ EncodeCalls = {})

C7_Witness ==
    /\ Decoded("NSUUID")
    /\ obj # NoObj
    /\ obj.v[1] = 255
    /\ <<"e", "x", "t", "r", "a">> \in DOMAIN Raw
    /\ Raw[UuidBytesKey] = Bytes(obj.v)
    /\ archive.calls = << <<"decode", UuidBytesKey>> >>
    /\ result.status = "ok"
    /\ result.value = obj

SixKeys ==
    << <<"a", "c", "t", "i", "v", "i", "t", "y", "T", "y", "p", "e">>,
       <<"a", "t", "t", "a", "c", "h", "m", "e", "n", "t", "s">>,
       <<"f", "i", "n", "i", "s", "h">>,
       <<"s", "t", "a", "r", "t">>,
       <<"t", "i", "t", "l", "e">>,
       <<"u", "u", "i", "d">> >>

\* C9: XCActivityRecord.decode_archive issues exactly six single-key decode
\* calls, for 'activityType', 'attachments', 'finish', 'start', 'title', 'uuid'
\* in that order, and returns a record whose key set is exactly those six keys,
\* whatever extra keys the source record holds.
C9_FixedKeys ==
    Decoded("XCActivityRecord") =>
        /\ result.status = "ok"
        /\ archive.calls = [i \in 1..6 |-> <<"decode", SixKeys[i]>>]
        /\ DOMAIN result.value.items = {SixKeys[i] : i \in 1..6}
        /\ \A k \in DOMAIN result.value.items :
              result.value.items[k] = IF k \in DOMAIN Raw THEN Raw[k] ELSE NoneValue

C9_Witness ==
    /\ Decoded("XCActivityRecord")
    /\ {SixKeys[i] : i \in 1..6} \subseteq DOMAIN Raw
    /\ <<"e", "x", "t", "r", "a">> \in DOMAIN Raw
    /\ <<"N", "S", ".", "x">> \in DOMAIN Raw
    /\ Len(archive.calls) = 6
    /\ Cardinality(DOMAIN result.value.items) = 6

-----------------------------------------------------------------------------
(* Properties of XCTestConfiguration *)

DefaultKeys == {XCTestConfiguration_default[i][1] : i \in 1..Len(XCTestConfiguration_default)}

\* the class-level value of a default key, as it was when the class was defined
InitialDefault(k) == Deep(InitialHeap, PairGet(XCTestConfiguration_default, k))

\* kv holds an NSURL under 'testBundleURL' and a UUID under 'sessionIdentifier'
Mandatory(kv) ==
    /\ \E i \in 1..Len(kv) : kv[i][1] = "testBundleURL" /\ kv[i][2].kind = "NSURL"
    /\ \E i \in 1..Len(kv) :
          kv[i][1] = "sessionIdentifier" /\ kv[i][2].kind \in {"UUID", "NSUUID"}

KvKeys(kv) == {kv[i][1] : i \in 1..Len(kv)}
KvValue(kv, k) == kv[CHOOSE i \in 1..Len(kv) : kv[i][1] = k][2]

\* C8: XCTestConfiguration(kv) fails, creating no record, whenever kv lacks
\* 'testBundleURL' or holds no NSURL there, or lacks 'sessionIdentifier' or
\* holds no UUID there; otherwise it succeeds with the key set of the default
\* table united with kv's keys, each key holding kv's value when kv has it and
\* the default value otherwise; encode_archive writes every one of these keys
\* under its own name.
C8_ConfigurationRecord ==
    /\ [][op' = "construct" =>
            LET kv == built'.kv IN
            IF ~Mandatory(kv)
            THEN /\ built'.status = "AssertionError"
                 /\ instances' = instances
                 /\ heap' = heap
            ELSE /\ built'.status = "ok"
                 /\ Len(instances') = Len(instances) + 1
                 /\ \A j \in 1..Len(instances) : instances'[j] = instances[j]
                 /\ LET d == instances'[Len(instances')]._kv IN
                    /\ PairKeys(d) = DefaultKeys \cup KvKeys(kv)
                    /\ Len(d) = Cardinality(PairKeys(d))
                    /\ \A k \in PairKeys(d) :
                          IF k \in KvKeys(kv)
                          THEN PairGet(d, k) = KvValue(kv, k)
                          ELSE Deep(heap', PairGet(d, k)) = InitialDefault(k)]_vars
    /\ [](op = "encode_config" =>
            LET d == instances[last]._kv IN
            /\ DOMAIN archive.object = PairKeys(d)
            /\ \A k \in PairKeys(d) : archive.object[k] = PairGet(d, k)
            /\ Len(archive.calls) = Len(d)
            /\ \A i \in 1..Len(d) : archive.calls[i] = <<"encode", d[i][1]>>)

C8_Witness ==
    /\ op = "encode_config"
    /\ changes = 0
    /\ "NSx" \in DOMAIN archive.object
    /\ archive.object["formatVersion"] = PyInt(3)
    /\ archive.object["systemAttachmentLifetime"] = PyInt(2)
    /\ archive.object["testBundleURL"].kind = "NSURL"
    /\ archive.object["sessionIdentifier"].kind = "NSUUID"
    /\ Cardinality(DOMAIN archive.object) = 34

\* C10: whatever constructions, __setitem__ calls and in-place changes of nested
\* values are made, the class-level default table keeps its values, an
\* operation on one instance changes no value another instance took from the
\* defaults, and an instance constructed later starts from the unchanged
\* defaults.  An instance's _kv keeps the default table's entries in the
\* table's order (deepcopy, update and assignment keep a dict's positions), so
\* the entries are compared position by position.
C10_DefaultsIsolated ==
    /\ [](\A i \in 1..Len(XCTestConfiguration_default) :
            Deep(heap, XCTestConfiguration_default[i][2])
                = Deep(InitialHeap, XCTestConfiguration_default[i][2]))
    /\ [][\A j \in 1..Len(instances) :
            j # last' =>
                \A i \in 1..Len(instances[j]._kv) :
                    instances[j]._kv[i][1] \in instances[j].defaults =>
                        /\ instances'[j]._kv[i][1] = instances[j]._kv[i][1]
                        /\ Deep(heap', instances'[j]._kv[i][2])
                              = Deep(heap, instances[j]._kv[i][2])]_vars
    /\ [](built.status = "ok" =>
            \A i \in 1..Len(XCTestConfiguration_default) :
                XCTestConfiguration_default[i][1] \in instances[last].defaults =>
                    /\ instances[last]._kv[i][1] = XCTestConfiguration_default[i][1]
                    /\ Deep(heap, instances[last]._kv[i][2])
                          = Deep(InitialHeap, XCTestConfiguration_default[i][2]))

C10_Witness ==
    /\ Len(instances) = 2
    /\ built.status = "ok"
    /\ last = 2
    /\ "aggregateStatisticsBeforeCrash" \in instances[1].defaults
    /\ Deep(heap, PairGet(instances[1]._kv, "aggregateStatisticsBeforeCrash"))
          .items["XCSuiteRecordsKey"].items # <<>>
    /\ Deep(heap, PairGet(instances[2]._kv, "aggregateStatisticsBeforeCrash"))
          .items["XCSuiteRecordsKey"].items = <<>>

-----------------------------------------------------------------------------
(* Specifications *)

ConfigIdle ==
    /\ heap = InitialHeap
    /\ instances = <<>>
    /\ built = NoBuilt
    /\ last = 0
    /\ changes = 0

Init ==
    /\ adapter \in Adapters
    /\ cls \in (IF adapter = "DataclassArchiver" THEN DataclassTypes ELSE {NSMutableData})
    /\ obj = NoObj
    /\ archive = EmptyArchive
    /\ result = NoResult
    /\ pc = "start"
    /\ op = "init"
    /\ puts = 0
    /\ ConfigIdle

Next ==
    \/ Encode /\ UNCHANGED cvars
    \/ PutRaw /\ UNCHANGED cvars
    \/ LoadRaw /\ UNCHANGED cvars
    \/ Decode /\ UNCHANGED cvars

Spec == Init /\ [][Next]_vars

InitNames ==
    /\ adapter = "DataclassArchiver"
    /\ cls \in NameTypes
    /\ obj = NoObj
    /\ archive = EmptyArchive
    /\ result = NoResult
    /\ pc = "start"
    /\ op = "init"
    /\ puts = 0
    /\ ConfigIdle

NextNames ==
    \/ EncodeName /\ UNCHANGED cvars
    \/ Decode /\ UNCHANGED cvars

SpecNames == InitNames /\ [][NextNames]_vars

InitConfig ==
    /\ adapter = "XCTestConfiguration"
    /\ cls = NSMutableData
    /\ obj = NoObj
    /\ archive = EmptyArchive
    /\ result = NoResult
    /\ pc = "start"
    /\ op = "init"
    /\ puts = 0
    /\ ConfigIdle

NextConfig ==
    \/ Construct
    \/ SetItem
    \/ MutateNested
    \/ EncodeConfig

SpecConfig == InitConfig /\ [][NextConfig]_vars
====
